---- MODULE Spec2Model ----
(***************************************************************************)
(* Model of mcvm's network layer, src/src/net/net.cc: DownloadHelper (one  *)
(* transfer on a curl easy handle, writing to a file, a string or both),   *)
(* MultiDownloadHelper (a curl multi handle driving several helpers) and   *)
(* download_cached_file.  libcurl, stdio and the filesystem are the        *)
(* environment: their outcomes are nondeterministic inputs of the actions. *)
(***************************************************************************)
EXTENDS Integers, Sequences, FiniteSets, TLC

\* ---------------------------------------------------------------- bounds
NumHelpers == 2      \* DownloadHelper objects that exist
MaxOpens == 2        \* successful fopen calls in one behaviour
MaxChunks == 2       \* chunks curl_easy_perform delivers in one behaviour
MaxMuxChunks == 1    \* chunks the multi handle delivers in one behaviour

Helpers == 1..NumHelpers
Solo == CHOOSE h \in Helpers : \A g \in Helpers : h <= g
Paths == {"p"}
Byte == {"a", "b"}
Chunks == {<<b>> : b \in Byte}
MuxChunks == {<<"a">>}
InitContents == {<<"b">>}
Modes == {"FILE", "STR", "FILE_AND_STR"}
FileModes == {"FILE", "FILE_AND_STR"}
nullptr == 0
ErrText == <<"E">>   \* some non-empty message curl writes to the buffer
Errnos == {"ENOENT", "EACCES"}   \* what a failing fopen leaves in errno

VARIABLES
    opt,            \* per helper: the options set on its curl easy handle
    res,            \* per helper: CurlResult [file, str]
    errbuf,         \* per helper: the error buffer, <<>> when errbuf[0] = 0
    is_used,        \* per helper: progress_data.is_used
    meter,          \* per helper: add_progress_meter has been called on it
    st,             \* per helper: "alive", "released" (by the caller, kept by
                    \* the MultiDownloadHelper) or "destroyed"
    xfer,           \* per helper: the transfer in progress or last finished
    files,          \* every FILE fopen returned: [path, state, pos, owner]
    disk,           \* per path: [exists, data]
    pc,             \* where the (single) thread is
    cur,            \* the helper whose curl_easy_perform is running
    dcf,            \* the download_cached_file call in progress or last made
    last,           \* the operation that returned last and what it returned
    crashed,        \* the process died (abort, or undefined behaviour)
    ndebug,         \* whether the build disables assert(), once it matters
    helpers,        \* MultiDownloadHelper::helpers, its keys
    registered,     \* easy handles added to the curl multi handle
    msgs_in_queue,  \* MultiDownloadHelper::msgs_in_queue
    code,           \* perform_blocking's local CURLMcode
    run,            \* the perform_blocking call in progress or last made:
                    \* [polled, empty, err]
    delivered       \* chunks delivered to write callbacks so far

vars == <<opt, res, errbuf, is_used, meter, st, xfer, files, disk, pc, cur,
          dcf, last, crashed, ndebug, helpers, registered, msgs_in_queue,
          code, run, delivered>>

multiVars == <<helpers, registered, msgs_in_queue, code, run, delivered>>

\* ------------------------------------------------------------- helpers
IsPrefix(s, t) == Len(s) <= Len(t) /\ SubSeq(t, 1, Len(s)) = s

\* curl_easy_init / curl_easy_reset: every option back to its default;
\* the default write function is fwrite to stdout.
DefaultOpt == [url |-> FALSE, errbuf |-> FALSE, writefn |-> "default",
               writedata |-> FALSE]

NoXfer == [recv |-> <<>>, short |-> FALSE, state |-> "none"]

\* (mutant) the exception is built without the error code
FileOpenError_NoCode(path, errno) == [path |-> path, code |-> ""]

\* throw FileOpenError{path.c_str(), errno}
FileOpenError(path, errno) == [path |-> path, code |-> errno]
NoExc == [path |-> "", code |-> ""]

\* a failed fopen call: the path it was given and the errno it set
FailedFopen(path, e) == [path |-> path, errno |-> e]
NoFopen == [path |-> "", errno |-> ""]

\* what the last operation returned: ok is its success (no throw, or the
\* bool it returned), val its payload, opened/closed the FILEs it opened
\* and gave to fclose, nl whether it printed the trailing newline, fopen
\* the fopen call that failed in it, exc the exception it threw, perf what
\* the perform call inside it returned
Ret(op, h, ok, val) == [op |-> op, h |-> h, ok |-> ok, val |-> val,
                        opened |-> nullptr, closed |-> nullptr, nl |-> FALSE,
                        fopen |-> NoFopen, exc |-> NoExc, perf |-> TRUE]

NoLast == Ret("none", Solo, TRUE, <<>>)

\* the process died inside an operation on h
Abort(h) == Ret("abort", h, FALSE, <<>>)

IsOpen(fs, f) == f # nullptr /\ fs[f].state = "open"
\* a FILE* that is not null but was already given to fclose
Dangling(fs, f) == f # nullptr /\ fs[f].state # "open"

\* fclose(f): the stream is closed; a second fclose of the same FILE is
\* recorded as "reclosed"
Fclose(fs, f) ==
    [fs EXCEPT ![f].state = IF @ = "open" THEN "closed" ELSE "reclosed"]

\* the bytes of a file after writing bs at offset pos
Overlay(data, pos, bs) ==
    LET n == IF Len(data) > pos + Len(bs) THEN Len(data) ELSE pos + Len(bs)
    IN [i \in 1..n |->
          IF i > pos /\ i <= pos + Len(bs) THEN bs[i - pos]
          ELSE IF i <= Len(data) THEN data[i] ELSE "nul"]

\* ------------------------------------------------------ DownloadHelper
\* DownloadHelper::DownloadHelper: a fresh easy handle with the error
\* buffer bound, errbuf[0] = 0; CurlResult starts with no file, empty str.
CtorOpt == [DefaultOpt EXCEPT !.errbuf = TRUE]

\* the write function set_options binds for a mode (the switch)
WriteFnOf(mode) ==
    CASE mode = "FILE" -> "file"
      [] mode = "STR" -> "str"
      [] mode = "FILE_AND_STR" -> "file_and_str"

\* (mutant) fopen succeeds without creating the file
Truncate_NoCreate(path) == disk

\* fopen(path, "wb") succeeds: the file exists and is empty
Truncate(path) == [disk EXCEPT ![path] = [exists |-> TRUE, data |-> <<>>]]

\* (mutant) the reset forgets to close the stored FILE
ResetFiles_NoClose(h) == files

\* The reset at the top of set_options: the stored FILE, if not null, is
\* given to fclose; the pointer itself is left as it is.
ResetFiles(h) ==
    IF res[h].file # nullptr THEN Fclose(files, res[h].file) ELSE files

\* set_options(mode, url, path) on helper h, where openOk says whether
\* fopen(path, "wb") succeeds.  The result is the new handle options, the
\* new CurlResult, the new FILE table and disk, whether FileOpenError was
\* thrown, and the FILEs this call opened and closed.
SetOptionsResult(h, mode, path, openOk) ==
    LET f0 == res[h].file
        files1 == ResetFiles(h)
        reset == [DefaultOpt EXCEPT !.url = TRUE]
        bound == [reset EXCEPT !.writefn = WriteFnOf(mode), !.writedata = TRUE]
        fnew == Len(files1) + 1
    IN  IF mode \in FileModes
        THEN IF openOk
             THEN [opt |-> bound,
                   res |-> [file |-> fnew, str |-> <<>>],
                   files |-> Append(files1,
                               [path |-> path, state |-> "open", pos |-> 0,
                                owner |-> h]),
                   disk |-> Truncate(path),
                   threw |-> FALSE, opened |-> fnew, closed |-> f0]
             ELSE [opt |-> reset,
                   res |-> [file |-> nullptr, str |-> <<>>],
                   files |-> files1, disk |-> disk,
                   threw |-> TRUE, opened |-> nullptr, closed |-> f0]
        ELSE [opt |-> bound,
              res |-> [file |-> f0, str |-> <<>>],
              files |-> files1, disk |-> disk,
              threw |-> FALSE, opened |-> nullptr, closed |-> f0]

\* whether fopen may succeed / fail here (the FILE table is bounded)
OpenOutcomes(mode) ==
    IF mode \in FileModes
    THEN (IF Len(files) < MaxOpens THEN {TRUE} ELSE {}) \cup {FALSE}
    ELSE {TRUE}

\* the errno a fopen call may leave
OpenErrnos(openOk) == IF openOk THEN {""} ELSE Errnos

\* what a set_options call with result r, whose fopen left errno e, gives
\* its caller: it returns, or FileOpenError leaves it
SetOptionsRet(op, h, path, r, e) ==
    [Ret(op, h, ~r.threw, <<>>)
       EXCEPT !.opened = r.opened,
              !.closed = r.closed,
              !.fopen = IF r.threw THEN FailedFopen(path, e) ELSE NoFopen,
              !.exc = IF r.threw THEN FileOpenError(path, e) ELSE NoExc]

\* fclose of a dangling FILE* is undefined: the process may die in it
FcloseCrash(f) == IF Dangling(files, f) THEN BOOLEAN ELSE {FALSE}

\* DownloadHelper::set_options, called by the user
set_options(h, mode, path) ==
    /\ pc = "idle" /\ ~crashed /\ st[h] = "alive"
    /\ \E openOk \in OpenOutcomes(mode), crash \in FcloseCrash(res[h].file) :
        \E e \in OpenErrnos(openOk) :
         LET r == SetOptionsResult(h, mode, path, openOk)
         IN  IF crash
             THEN /\ crashed' = TRUE
                  /\ files' = ResetFiles(h)
                  /\ last' = Abort(h)
                  /\ UNCHANGED <<opt, res, disk>>
             ELSE /\ opt' = [opt EXCEPT ![h] = r.opt]
                  /\ res' = [res EXCEPT ![h] = r.res]
                  /\ files' = r.files
                  /\ disk' = r.disk
                  /\ last' = SetOptionsRet("set_options", h, path, r, e)
                  /\ UNCHANGED crashed
    /\ UNCHANGED <<errbuf, is_used, meter, st, xfer, pc, cur, dcf,
                   ndebug>>
    /\ UNCHANGED multiVars

\* ------------------------------------------------- the write callbacks
\* write_data_to_file: fwrite on res.file, which accepts n items.  On a
\* FILE that is null or closed fwrite is undefined; what is modelled of it
\* is that nothing is written (the caller adds the crash).
WriteFile(h, chunk, n) ==
    LET f == res[h].file
    IN  IF IsOpen(files, f)
        THEN [files |-> [files EXCEPT ![f].pos = @ + n],
              disk |-> [disk EXCEPT ![files[f].path].data =
                          Overlay(@, files[f].pos, SubSeq(chunk, 1, n))],
              ret |-> n]
        ELSE [files |-> files, disk |-> disk, ret |-> 0]

\* (mutant) write_data_to_str reports the chunk written and drops it
WriteStr_Drops(h, chunk) == [str |-> res[h].str, ret |-> Len(chunk)]

\* write_data_to_str: appends the whole chunk, returns size * nmemb
WriteStr(h, chunk) == [str |-> res[h].str \o chunk, ret |-> Len(chunk)]

\* the write function bound on h's handle, applied to one chunk; n is what
\* fwrite accepts.  write_data_to_file_and_str writes the file, then the
\* string, and returns the file's count.
WriteResult(h, chunk, n) ==
    LET fn == opt[h].writefn
        wf == WriteFile(h, chunk, n)
        ws == WriteStr(h, chunk)
    IN  CASE fn = "file" ->
               [str |-> res[h].str, files |-> wf.files, disk |-> wf.disk,
                ret |-> wf.ret]
          [] fn = "str" ->
               [str |-> ws.str, files |-> files, disk |-> disk,
                ret |-> ws.ret]
          [] fn = "file_and_str" ->
               [str |-> ws.str, files |-> wf.files, disk |-> wf.disk,
                ret |-> wf.ret]
          [] OTHER ->
               [str |-> res[h].str, files |-> files, disk |-> disk,
                ret |-> Len(chunk)]

UsesFile(h) == opt[h].writefn \in {"file", "file_and_str"}

\* what fwrite may accept of a chunk: all of it, or less (a full disk)
Accepts(h, chunk) ==
    IF UsesFile(h)
    THEN (IF IsOpen(files, res[h].file) THEN 0..Len(chunk) ELSE {0})
    ELSE {Len(chunk)}

\* fwrite on a null or closed FILE is undefined: the process may die in it
FwriteCrash(h) ==
    IF UsesFile(h) /\ ~IsOpen(files, res[h].file) THEN BOOLEAN ELSE {FALSE}

\* the transport hands one chunk to h's write callback; a callback that
\* returns less than the chunk's size aborts the transfer
Deliver(h, chunk, n) ==
    LET w == WriteResult(h, chunk, n)
    IN  /\ res' = [res EXCEPT ![h].str = w.str]
        /\ files' = w.files
        /\ disk' = w.disk
        /\ xfer' = [xfer EXCEPT ![h].recv = @ \o chunk,
                                ![h].short = (w.ret # Len(chunk))]
        /\ delivered' = delivered + 1

\* a transfer of h begins: curl clears a bound error buffer
Begin(h) ==
    /\ xfer' = [xfer EXCEPT ![h] = [recv |-> <<>>, short |-> FALSE,
                                    state |-> "active"]]
    /\ errbuf' = [errbuf EXCEPT ![h] = IF opt[h].errbuf THEN <<>> ELSE @]

\* how a transfer of h may end: it fails when a write was short or no URL
\* is set, and otherwise succeeds or fails as the network decides
Outcomes(h) ==
    IF xfer[h].short \/ ~opt[h].url THEN {FALSE} ELSE BOOLEAN

\* the error buffer after a transfer of h ended: curl fills it on failure
\* if CURLOPT_ERRORBUFFER is set on the handle
ErrbufAfter(h, ok) == IF ~ok /\ opt[h].errbuf THEN ErrText ELSE errbuf[h]

\* ------------------------------------------------ DownloadHelper::perform
\* (mutant) perform returns on a transport error before closing the file
PerformResult_LeaksOnError(h, ok) ==
    LET f == res[h].file
    IN  [res |-> IF ok THEN [res[h] EXCEPT !.file = nullptr] ELSE res[h],
         files |-> IF ok /\ f # nullptr THEN Fclose(files, f) ELSE files,
         closed |-> IF ok THEN f ELSE nullptr,
         nl |-> is_used[h],
         ret |-> ok]

\* the part of perform after curl_easy_perform returned ok: the file, if
\* not null, is closed and the pointer cleared; the newline is printed if
\* a progress meter is used; the result is ok
PerformResult(h, ok) ==
    LET f == res[h].file
    IN  [res |-> [res[h] EXCEPT !.file = nullptr],
         files |-> IF f # nullptr THEN Fclose(files, f) ELSE files,
         closed |-> f,
         nl |-> is_used[h],
         ret |-> ok]

\* perform() is called: curl_easy_perform starts
perform_call(h) ==
    /\ pc = "idle" /\ ~crashed /\ st[h] = "alive"
    /\ pc' = "easy" /\ cur' = h
    /\ Begin(h)
    /\ UNCHANGED <<opt, res, is_used, meter, st, files, disk, dcf, last,
                   crashed, ndebug>>
    /\ UNCHANGED multiVars

\* inside curl_easy_perform: one chunk arrives
easy_chunk ==
    /\ pc = "easy" /\ ~crashed
    /\ delivered < MaxChunks /\ ~xfer[cur].short
    /\ \E c \in Chunks : \E n \in Accepts(cur, c), crash \in FwriteCrash(cur) :
         IF crash
         THEN /\ crashed' = TRUE /\ last' = Abort(cur)
              /\ UNCHANGED <<res, files, disk, xfer, delivered>>
         ELSE /\ Deliver(cur, c, n)
              /\ UNCHANGED <<crashed, last>>
    /\ UNCHANGED <<opt, errbuf, is_used, meter, st, pc, cur, dcf, ndebug>>
    /\ UNCHANGED <<helpers, registered, msgs_in_queue, code, run>>

\* curl_easy_perform returns and perform runs to its end; when the call
\* came from download_cached_file, that returns helper->get_str()
perform_return ==
    /\ pc = "easy" /\ ~crashed
    /\ \E ok \in Outcomes(cur), crash \in FcloseCrash(res[cur].file) :
         LET r == PerformResult(cur, ok)
         IN  /\ files' = r.files
             /\ errbuf' = [errbuf EXCEPT ![cur] = ErrbufAfter(cur, ok)]
             /\ xfer' = [xfer EXCEPT ![cur].state = "done"]
             /\ IF crash
                THEN /\ crashed' = TRUE /\ last' = Abort(cur)
                     /\ UNCHANGED <<res, pc, dcf>>
                ELSE /\ res' = [res EXCEPT ![cur] = r.res]
                     /\ pc' = "idle"
                     /\ dcf' = [dcf EXCEPT !.active = FALSE]
                     /\ last' = IF dcf.active
                                THEN [Ret("download_cached_file", cur, TRUE,
                                          r.res.str)
                                        EXCEPT !.perf = r.ret]
                                ELSE [Ret("perform", cur, r.ret, <<>>)
                                        EXCEPT !.closed = r.closed,
                                               !.nl = r.nl]
                     /\ UNCHANGED crashed
    /\ UNCHANGED <<opt, is_used, meter, st, disk, cur, ndebug>>
    /\ UNCHANGED multiVars

\* DownloadHelper::~DownloadHelper: the handle is cleaned up and the file,
\* if not null, is given to fclose.  The FILE table after the helpers in
\* hs are destroyed.
DtorFiles(hs) ==
    [f \in DOMAIN files |->
        IF \E h \in hs : res[h].file = f
        THEN Fclose(files, f)[f] ELSE files[f]]

\* destroying the helpers in hs is undefined if one holds a dangling FILE
DtorCrash(hs) ==
    IF \E h \in hs : Dangling(files, res[h].file) THEN BOOLEAN ELSE {FALSE}

\* The caller drops its shared_ptr to helper h.  If the
\* MultiDownloadHelper still holds one (h is a key of helpers) the helper
\* lives on until it is erased there; otherwise it is destroyed now.
release(h) ==
    /\ pc = "idle" /\ ~crashed /\ st[h] = "alive"
    /\ IF h \in helpers
       THEN /\ st' = [st EXCEPT ![h] = "released"]
            /\ last' = Ret("release", Solo, TRUE, <<>>)
            /\ UNCHANGED <<files, crashed>>
       ELSE \E crash \in DtorCrash({h}) :
              /\ files' = DtorFiles({h})
              /\ crashed' = crash
              /\ st' = [st EXCEPT ![h] = "destroyed"]
              /\ last' = IF crash THEN Abort(h)
                         ELSE [Ret("dtor", h, TRUE, <<>>)
                                 EXCEPT !.closed = res[h].file]
    /\ UNCHANGED <<opt, res, errbuf, is_used, meter, xfer, disk, pc, cur,
                   dcf, ndebug>>
    /\ UNCHANGED multiVars

\* what sha1_checksum(checksum) returns
Sha1ChecksumRet(h, checksum) == TRUE

\* DownloadHelper::sha1_checksum: "return true" is the whole body
sha1_checksum(h, checksum) ==
    /\ pc = "idle" /\ ~crashed /\ st[h] = "alive"
    /\ last' = Ret("sha1_checksum", h, Sha1ChecksumRet(h, checksum), checksum)
    /\ UNCHANGED <<opt, res, errbuf, is_used, meter, st, xfer, files, disk,
                   pc, cur, dcf, crashed, ndebug>>
    /\ UNCHANGED multiVars

\* progress_data.is_used after add_progress_meter: every statement of the
\* body is commented out, so it is what it was
MeterIsUsed(h) == is_used[h]

\* DownloadHelper::add_progress_meter(style, title)
add_progress_meter(h) ==
    /\ pc = "idle" /\ ~crashed /\ st[h] = "alive"
    /\ is_used' = [is_used EXCEPT ![h] = MeterIsUsed(h)]
    /\ meter' = [meter EXCEPT ![h] = TRUE]
    /\ last' = Ret("add_progress_meter", h, TRUE, <<>>)
    /\ UNCHANGED <<opt, res, errbuf, st, xfer, files, disk, pc, cur, dcf,
                   crashed, ndebug>>
    /\ UNCHANGED multiVars

\* get_str and get_err return res.str and the error buffer
get_str(h) == res[h].str
get_err(h) == errbuf[h]

\* ------------------------------------------------ download_cached_file
\* file_exists and read_file (io/files.hh): whether the path exists, and
\* the whole content of the file
FileExists(path) == disk[path].exists
ReadFile(path) == disk[path].data

\* (mutant) the cache is never consulted
CacheHit_Never(path) == FALSE

\* the test that selects the cache branch
CacheHit(path) == FileExists(path)

\* what the cache branch returns
CachedPayload(path, download_str) ==
    IF download_str THEN ReadFile(path) ELSE <<>>

\* (mutant) the two modes of the download branch are swapped
ModeFor_Swapped(download_str) == IF download_str THEN "FILE" ELSE "FILE_AND_STR"

\* the mode the download branch asks for
ModeFor(download_str) == IF download_str THEN "FILE_AND_STR" ELSE "FILE"

\* a download_cached_file call: its arguments, the branch it took, whether
\* set_options threw out of it, the curl_easy_perform calls it made, and
\* per path the curl_easy_perform calls that it and the download_cached_file
\* calls before it have made
DcfCall(path, download_str) ==
    [active |-> FALSE, path |-> path, want |-> download_str, hit |-> FALSE,
     threw |-> FALSE, calls |-> 0, total |-> dcf.total]

NoDcf ==
    [active |-> FALSE, path |-> CHOOSE p \in Paths : TRUE, want |-> FALSE,
     hit |-> FALSE, threw |-> FALSE, calls |-> 0,
     total |-> [p \in Paths |-> 0]]

\* download_cached_file(url, path, download_str, helper) is called.  On a
\* hit it returns at once.  Otherwise set_options runs; if it throws, the
\* exception leaves download_cached_file; if not, perform is entered.
download_cached_file(path, download_str, h) ==
    /\ pc = "idle" /\ ~crashed /\ st[h] = "alive"
    /\ LET call == DcfCall(path, download_str)
       IN  IF CacheHit(path)
           THEN /\ dcf' = [call EXCEPT !.hit = TRUE]
                /\ last' = Ret("download_cached_file", h, TRUE,
                               CachedPayload(path, download_str))
                /\ UNCHANGED <<opt, res, errbuf, xfer, files, disk, pc, cur,
                               crashed>>
           ELSE \E openOk \in OpenOutcomes(ModeFor(download_str)),
                   crash \in FcloseCrash(res[h].file) :
                 \E e \in OpenErrnos(openOk) :
                  LET r == SetOptionsResult(h, ModeFor(download_str),
                                            path, openOk)
                  IN  IF crash
                      THEN /\ crashed' = TRUE /\ last' = Abort(h)
                           /\ files' = ResetFiles(h)
                           /\ dcf' = call
                           /\ UNCHANGED <<opt, res, errbuf, xfer, disk, pc,
                                          cur>>
                      ELSE /\ opt' = [opt EXCEPT ![h] = r.opt]
                           /\ res' = [res EXCEPT ![h] = r.res]
                           /\ files' = r.files
                           /\ disk' = r.disk
                           /\ UNCHANGED crashed
                           /\ IF r.threw
                              THEN /\ dcf' = [call EXCEPT !.threw = TRUE]
                                   /\ last' = SetOptionsRet(
                                          "download_cached_file", h, path,
                                          r, e)
                                   /\ UNCHANGED <<errbuf, xfer, pc, cur>>
                              ELSE /\ dcf' = [call EXCEPT
                                                     !.active = TRUE,
                                                     !.calls = 1,
                                                     !.total[path] = @ + 1]
                                   /\ pc' = "easy" /\ cur' = h
                                   /\ xfer' = [xfer EXCEPT ![h] =
                                        [recv |-> <<>>, short |-> FALSE,
                                         state |-> "active"]]
                                   /\ errbuf' = [errbuf EXCEPT ![h] =
                                        IF r.opt.errbuf THEN <<>> ELSE @]
                                   /\ UNCHANGED last
    /\ UNCHANGED <<is_used, meter, st, ndebug>>
    /\ UNCHANGED multiVars

\* ------------------------------------------------- MultiDownloadHelper
\* a perform_blocking call: whether it was entered with no helper
\* registered, whether it has called curl_multi_poll, whether
\* curl_multi_perform or curl_multi_poll has reported an error in it, and
\* whether it is the first call on the set ("first") or a later one
\* ("later"; "none" before any call)
NoRun == [empty |-> FALSE, polled |-> FALSE, err |-> FALSE, nth |-> "none"]

\* (mutant) perform_blocking leaves msgs_in_queue as the loop left it
ExitMsgsInQueue_Kept == msgs_in_queue

\* msgs_in_queue = 1 after the loop, "so that the while loop starts"
ExitMsgsInQueue == 1

soloVars == <<dcf, cur, is_used, meter>>

\* curl_multi_add_handle: the handle joins the multi handle and its
\* transfer is queued; a handle that is already in it is refused
MultiAdd(h) == registered \cup {h}

\* MultiDownloadHelper::add_helper
add_helper(h) ==
    /\ pc = "idle" /\ ~crashed /\ st[h] = "alive"
    /\ helpers' = helpers \cup {h}
    /\ registered' = MultiAdd(h)
    /\ xfer' = IF h \in registered THEN xfer
               ELSE [xfer EXCEPT ![h].state = "queued"]
    /\ last' = Ret("add_helper", Solo, TRUE, <<>>)
    /\ UNCHANGED <<opt, res, errbuf, st, files, disk, pc, crashed,
                   ndebug, msgs_in_queue, code, run, delivered>>
    /\ UNCHANGED soloVars

\* perform_blocking is called
perform_blocking_call ==
    /\ pc = "idle" /\ ~crashed
    /\ pc' = "mb_while"
    /\ run' = [NoRun EXCEPT !.empty = (helpers = {}),
                            !.nth = IF run.nth = "none" THEN "first"
                                    ELSE "later"]
    /\ code' = "OK"
    /\ UNCHANGED <<opt, res, errbuf, st, xfer, files, disk, last,
                   crashed, ndebug, helpers, registered, msgs_in_queue,
                   delivered>>
    /\ UNCHANGED soloVars

\* the transfers curl_multi_perform starts: those added and not begun
Queued == {h \in registered : xfer[h].state = "queued"}

\* while (msgs_in_queue): the loop is left, or entered and with it
\* curl_multi_perform, which starts every queued transfer
mb_while ==
    /\ pc = "mb_while" /\ ~crashed
    /\ IF msgs_in_queue # 0
       THEN /\ pc' = "mb_perform"
            /\ xfer' = [h \in Helpers |->
                          IF h \in Queued
                          THEN [recv |-> <<>>, short |-> FALSE,
                                state |-> "active"]
                          ELSE xfer[h]]
            /\ errbuf' = [h \in Helpers |->
                            IF h \in Queued /\ opt[h].errbuf
                            THEN <<>> ELSE errbuf[h]]
       ELSE /\ pc' = "mb_exit"
            /\ UNCHANGED <<xfer, errbuf>>
    /\ UNCHANGED <<opt, res, st, files, disk, last, crashed, ndebug>>
    /\ UNCHANGED multiVars
    /\ UNCHANGED soloVars

\* inside curl_multi_perform: a chunk arrives for a running transfer
mux_chunk(h) ==
    /\ pc = "mb_perform" /\ ~crashed
    /\ h \in registered /\ xfer[h].state = "active"
    /\ delivered < MaxMuxChunks /\ ~xfer[h].short
    /\ \E c \in MuxChunks : \E n \in Accepts(h, c), crash \in FwriteCrash(h) :
         IF crash
         THEN /\ crashed' = TRUE /\ last' = Abort(h)
              /\ UNCHANGED <<res, files, disk, xfer, delivered>>
         ELSE /\ Deliver(h, c, n)
              /\ UNCHANGED <<crashed, last>>
    /\ UNCHANGED <<opt, errbuf, st, pc, ndebug>>
    /\ UNCHANGED <<helpers, registered, msgs_in_queue, code, run>>
    /\ UNCHANGED soloVars

\* inside curl_multi_perform: a running transfer ends, well or badly, and
\* its CURLMSG_DONE message is queued
mux_finish(h) ==
    /\ pc = "mb_perform" /\ ~crashed
    /\ h \in registered /\ xfer[h].state = "active"
    /\ \E ok \in Outcomes(h) :
         errbuf' = [errbuf EXCEPT ![h] = ErrbufAfter(h, ok)]
    /\ xfer' = [xfer EXCEPT ![h].state = "done"]
    /\ UNCHANGED <<opt, res, st, files, disk, pc, last, crashed,
                   ndebug>>
    /\ UNCHANGED multiVars
    /\ UNCHANGED soloVars

\* the transfers of the multi handle that have not finished
Running == {h \in registered : xfer[h].state # "done"}

\* the finished transfers whose message has not been read
Finished == {h \in registered : xfer[h].state = "done"}

\* curl_multi_perform returns: msgs_in_queue receives the number of
\* running handles, code its result
curl_multi_perform_return ==
    /\ pc = "mb_perform" /\ ~crashed
    /\ msgs_in_queue' = Cardinality(Running)
    /\ \E c \in {"OK", "ERR"} :
         /\ code' = c
         /\ run' = [run EXCEPT !.err = @ \/ (c = "ERR")]
    /\ pc' = "mb_poll"
    /\ UNCHANGED <<opt, res, errbuf, st, xfer, files, disk, last,
                   crashed, ndebug, helpers, registered,
                   delivered>>
    /\ UNCHANGED soloVars

\* (mutant) the blocking wait is made on every turn of the loop
ShouldPoll_Always == TRUE

\* whether the loop body calls curl_multi_poll
ShouldPoll == msgs_in_queue # 0

\* if (msgs_in_queue) code = curl_multi_poll(...); if (code) break;
mb_poll ==
    /\ pc = "mb_poll" /\ ~crashed
    /\ IF ShouldPoll
       THEN \E c \in {"OK", "ERR"} :
              /\ code' = c
              /\ run' = [run EXCEPT !.polled = TRUE, !.err = @ \/ (c = "ERR")]
       ELSE UNCHANGED <<code, run>>
    /\ pc' = IF code' # "OK" THEN "mb_exit" ELSE "mb_drain"
    /\ UNCHANGED <<opt, res, errbuf, st, xfer, files, disk, last,
                   crashed, ndebug, helpers, registered, msgs_in_queue,
                   delivered>>
    /\ UNCHANGED soloVars

\* (mutant) a finished transfer is erased from helpers and left in the
\* multi handle
DrainRegistered_Keeps == registered

\* the inner loop reads every CURLMSG_DONE message; each names a handle,
\* which is removed from the multi handle ...
DrainRegistered == registered \ Finished

\* ... and erased from helpers
DrainHelpers == helpers \ Finished

\* the helpers whose last shared_ptr the erase drops
Dying == {h \in Finished \cap helpers : st[h] = "released"}

mb_drain ==
    /\ pc = "mb_drain" /\ ~crashed
    /\ registered' = DrainRegistered
    /\ helpers' = DrainHelpers
    /\ \E crash \in DtorCrash(Dying) :
         /\ crashed' = crash
         /\ last' = IF crash THEN Abort(Solo) ELSE last
    /\ files' = DtorFiles(Dying)
    /\ st' = [h \in Helpers |-> IF h \in Dying THEN "destroyed" ELSE st[h]]
    /\ pc' = "mb_while"
    /\ UNCHANGED <<opt, res, errbuf, xfer, disk, ndebug,
                   msgs_in_queue, code, run,
                   delivered>>
    /\ UNCHANGED soloVars

\* what perform_blocking returns
PerformBlockingRet == TRUE

\* whether assert() is compiled out: a property of the build, fixed the
\* first time an assertion fails
NdebugChoices == IF ndebug = "unknown" THEN {"yes", "no"} ELSE {ndebug}

\* after the loop: assert(helpers.empty()); msgs_in_queue = 1; return true
mb_exit ==
    /\ pc = "mb_exit" /\ ~crashed
    /\ IF helpers = {}
       THEN /\ UNCHANGED <<ndebug, crashed>>
            /\ msgs_in_queue' = ExitMsgsInQueue
            /\ pc' = "idle" /\ code' = "OK"
            /\ last' = Ret("perform_blocking", Solo, PerformBlockingRet, <<>>)
       ELSE \E nd \in NdebugChoices :
              /\ ndebug' = nd
              /\ IF nd = "yes"
                 THEN /\ msgs_in_queue' = ExitMsgsInQueue
                      /\ pc' = "idle" /\ code' = "OK"
                      /\ last' = Ret("perform_blocking", Solo,
                                     PerformBlockingRet, <<>>)
                      /\ UNCHANGED crashed
                 ELSE /\ crashed' = TRUE
                      /\ last' = Abort(Solo)
                      /\ UNCHANGED <<msgs_in_queue, pc, code>>
    /\ UNCHANGED <<opt, res, errbuf, st, xfer, files, disk,
                   helpers, registered, run,
                   delivered>>
    /\ UNCHANGED soloVars

\* MultiDownloadHelper::get_helper_count
get_helper_count == Cardinality(helpers)

\* ------------------------------------------------------ initial state
\* Every helper is constructed and idle; the MultiDownloadHelper is
\* constructed and empty; each path is absent or holds some content.
InitDisks ==
    [Paths -> {[exists |-> FALSE, data |-> <<>>]}
              \cup {[exists |-> TRUE, data |-> d] : d \in InitContents}]

Init ==
    /\ opt = [h \in Helpers |-> CtorOpt]
    /\ res = [h \in Helpers |-> [file |-> nullptr, str |-> <<>>]]
    /\ errbuf = [h \in Helpers |-> <<>>]
    /\ is_used = [h \in Helpers |-> FALSE]
    /\ meter = [h \in Helpers |-> FALSE]
    /\ st = [h \in Helpers |-> "alive"]
    /\ xfer = [h \in Helpers |-> NoXfer]
    /\ files = <<>>
    /\ disk \in InitDisks
    /\ pc = "idle"
    /\ cur = Solo
    /\ dcf = NoDcf
    /\ last = NoLast
    /\ crashed = FALSE
    /\ ndebug = "unknown"
    /\ helpers = {}
    /\ registered = {}
    /\ msgs_in_queue = 1
    /\ code = "OK"
    /\ run = NoRun
    /\ delivered = 0

\* ---------------------------------------- one DownloadHelper, used alone
NextSolo ==
    \/ \E mode \in Modes, path \in Paths : set_options(Solo, mode, path)
    \/ perform_call(Solo)
    \/ easy_chunk
    \/ perform_return
    \/ release(Solo)
    \/ \E path \in Paths, want \in BOOLEAN :
          download_cached_file(path, want, Solo)

Spec == Init /\ [][NextSolo]_vars

\* ------------------- one DownloadHelper with its meter and its checksum
\* the digests a caller passes to sha1_checksum
Checksums == {<<>>, <<"0">>, <<"a">>, <<"A">>}

NextApi ==
    \/ \E mode \in Modes, path \in Paths : set_options(Solo, mode, path)
    \/ add_progress_meter(Solo)
    \/ perform_call(Solo)
    \/ easy_chunk
    \/ perform_return
    \/ \E c \in Checksums : sha1_checksum(Solo, c)

SpecApi == Init /\ [][NextApi]_vars

\* ------------------------- helpers driven through a MultiDownloadHelper
NextMulti ==
    \/ \E h \in Helpers : add_helper(h)
    \/ \E h \in Helpers : release(h)
    \/ perform_blocking_call
    \/ mb_while
    \/ \E h \in Helpers : mux_chunk(h)
    \/ \E h \in Helpers : mux_finish(h)
    \/ curl_multi_perform_return
    \/ mb_poll
    \/ mb_drain
    \/ mb_exit

\* The state after each helper was constructed and given one successful
\* set_options call, of mode cfg[h] on path where[h], in the order of the
\* helpers: the FILE-mode ones hold an open, empty file.  The helpers of
\* one behaviour all get the same mode.
MultiModes == {"FILE", "STR"}
MultiConfigs == {[h \in Helpers |-> m] : m \in MultiModes}

FileHelpers(cfg) == {h \in Helpers : cfg[h] \in FileModes}

\* the helper whose set_options made the i-th fopen call
Opener(cfg, i) ==
    CHOOSE h \in FileHelpers(cfg) :
        Cardinality({g \in FileHelpers(cfg) : g <= h}) = i

FileOf(cfg, h) == Cardinality({g \in FileHelpers(cfg) : g <= h})

InitMulti ==
    \E cfg \in MultiConfigs, where \in [Helpers -> Paths] :
        /\ opt = [h \in Helpers |->
                    [url |-> TRUE, errbuf |-> FALSE,
                     writefn |-> WriteFnOf(cfg[h]), writedata |-> TRUE]]
        /\ res = [h \in Helpers |->
                    [file |-> IF cfg[h] \in FileModes THEN FileOf(cfg, h)
                              ELSE nullptr,
                     str |-> <<>>]]
        /\ files = [i \in 1..Cardinality(FileHelpers(cfg)) |->
                      [path |-> where[Opener(cfg, i)], state |-> "open",
                       pos |-> 0, owner |-> Opener(cfg, i)]]
        /\ disk = [p \in Paths |->
                     [exists |-> \E h \in FileHelpers(cfg) : where[h] = p,
                      data |-> <<>>]]
        /\ errbuf = [h \in Helpers |-> <<>>]
        /\ is_used = [h \in Helpers |-> FALSE]
        /\ meter = [h \in Helpers |-> FALSE]
        /\ st = [h \in Helpers |-> "alive"]
        /\ xfer = [h \in Helpers |-> NoXfer]
        /\ pc = "idle"
        /\ cur = Solo
        /\ dcf = NoDcf
        /\ last = NoLast
        /\ crashed = FALSE
        /\ ndebug = "unknown"
        /\ helpers = {}
        /\ registered = {}
        /\ msgs_in_queue = 1
        /\ code = "OK"
        /\ run = NoRun
        /\ delivered = 0

SpecMulti == InitMulti /\ [][NextMulti]_vars

\* The thread inside perform_blocking keeps running: libcurl's calls return
\* (curl_multi_poll within its timeout) and the loop goes on to its next
\* statement.
LoopFairness ==
    /\ WF_vars(mb_while)
    /\ WF_vars(curl_multi_perform_return)
    /\ WF_vars(mb_poll)
    /\ WF_vars(mb_drain)
    /\ WF_vars(mb_exit)

\* Every transfer that curl_multi_perform is driven on again and again
\* completes or fails in the end.
TransferFairness == \A h \in Helpers : SF_vars(mux_finish(h))

SpecMultiFair == SpecMulti /\ LoopFairness /\ TransferFairness

\* ====================================================== the claims
OwnedBy(h) == {f \in DOMAIN files : files[f].owner = h}

\* C1 (as claimed): every FILE set_options opened is closed exactly once:
\* fclose is never called on it a second time, and it is closed once its
\* helper is destroyed.
C1_ClosedExactlyOnce ==
    \A f \in DOMAIN files :
        /\ files[f].state # "reclosed"
        /\ st[files[f].owner] = "destroyed" => files[f].state = "closed"

\* the call of perform (alone, or inside download_cached_file) has returned
PerformReturned ==
    /\ pc = "idle" /\ ~crashed
    /\ \/ last.op = "perform"
       \/ last.op = "download_cached_file" /\ dcf.calls = 1

\* C2: whenever perform returns, with success or failure, the helper's
\* stored FILE pointer is null and no FILE it opened is still open.
C2_PerformLeavesNoOpenFile ==
    PerformReturned =>
        /\ res[last.h].file = nullptr
        /\ \A f \in OwnedBy(last.h) : ~IsOpen(files, f)

\* C2 witness: perform returned failure after closing the file that the
\* preceding set_options had opened and the transfer had written to
C2_Witness ==
    /\ PerformReturned /\ last.op = "perform" /\ ~last.ok
    /\ last.closed # nullptr /\ files[last.closed].state = "closed"
    /\ files[last.closed].pos > 0

\* C3: an open FILE is always the one its helper's res.file points to, and
\* when set_options returns or throws, the FILE that was stored at its
\* entry (the one a preceding set_options opened) is no longer open.
C3_ReconfigureClosesFirstFile ==
    /\ \A f \in DOMAIN files :
          IsOpen(files, f) => res[files[f].owner].file = f
    /\ (last.op = "set_options" /\ last.closed # nullptr)
          => ~IsOpen(files, last.closed)

\* C3 witness: a second set_options, whose own fopen failed, has closed
\* (once) the file the first set_options opened
C3_Witness ==
    /\ last.op = "set_options" /\ ~last.ok
    /\ last.closed # nullptr /\ files[last.closed].state = "closed"
    /\ files[last.closed].pos = 0

\* a step that is a call of download_cached_file
DcfCallStep ==
    /\ pc = "idle" /\ ~crashed'
    /\ \/ pc' = "easy" /\ dcf'.active
       \/ pc' = "idle" /\ last'.op = "download_cached_file"

\* C9: a download_cached_file call on a path that exists returns at once,
\* makes no curl_easy_perform call, leaves the helper, the FILE table and
\* the disk as they were, and returns the file's bytes when download_str
\* is true and the empty string when it is false.
C9_CacheHitTouchesNothing ==
    [][(DcfCallStep /\ FileExists(dcf'.path)) =>
          /\ pc' = "idle" /\ dcf'.calls = 0 /\ last'.ok
          /\ UNCHANGED <<opt, res, errbuf, is_used, st, xfer, files, disk>>
          /\ last'.val = IF dcf'.want THEN disk[dcf'.path].data ELSE <<>>
      ]_vars

\* C9 witness: a hit with download_str true returned a non-empty file on
\* a helper that had been configured before
C9_Witness ==
    /\ last.op = "download_cached_file" /\ dcf.hit /\ dcf.want
    /\ last.val # <<>> /\ opt[last.h].writefn # "default"

\* download_cached_file(path, false) took the download branch and is over
DcfMissNoStr ==
    /\ pc = "idle" /\ ~crashed
    /\ last.op = "download_cached_file" /\ ~dcf.hit /\ ~dcf.want

\* C10 (as claimed): download_cached_file with download_str false on a
\* missing path makes exactly one transport call, leaves exactly the
\* received bytes in the file, and returns the empty string.
C10_MissFillsFile ==
    DcfMissNoStr =>
        /\ dcf.calls = 1
        /\ disk[dcf.path].exists
        /\ disk[dcf.path].data = xfer[last.h].recv
        /\ last.val = <<>>

\* C10 (amended): if the destination cannot be opened the call throws
\* without any transport call; otherwise it makes exactly one, returns the
\* empty string, and the file holds the bytes fwrite accepted: a prefix of
\* the bytes received, and all of them unless a write came up short.
C10_MissFillsFile_Amended ==
    DcfMissNoStr =>
        IF dcf.threw
        THEN dcf.calls = 0 /\ ~last.ok
        ELSE /\ dcf.calls = 1 /\ last.ok
             /\ last.val = <<>>
             /\ disk[dcf.path].exists
             /\ IsPrefix(disk[dcf.path].data, xfer[last.h].recv)
             /\ ~xfer[last.h].short
                   => disk[dcf.path].data = xfer[last.h].recv

\* C10 witness: the download branch returned after two chunks, all written
C10_Witness ==
    /\ DcfMissNoStr /\ ~dcf.threw /\ ~xfer[last.h].short
    /\ Len(xfer[last.h].recv) >= 2
    /\ disk[dcf.path].data = xfer[last.h].recv

\* the call of perform_blocking has returned
BlockingReturned == pc = "idle" /\ ~crashed /\ last.op = "perform_blocking"

\* C4: the keys of helpers are exactly the easy handles registered with
\* the curl multi handle, in every state.
C4_KeysAreRegistrations == helpers = registered

\* C4 witness: in the middle of a run one transfer has been drained (out of
\* both) while another is still a key and still registered
C4_Witness ==
    /\ pc = "mb_while"
    /\ \E h \in Helpers : xfer[h].state = "done" /\ h \notin helpers
    /\ \E h \in helpers : h \in registered /\ xfer[h].state = "active"

\* C5 (as claimed): whenever perform_blocking returns, helpers is empty.
C5_EmptyAfterRun == BlockingReturned => get_helper_count = 0

\* C6 (as claimed): if curl_multi_perform or curl_multi_poll reported an
\* error during the call, perform_blocking returns false.
C6_ErrorReturnsFalse == (BlockingReturned /\ run.err) => ~last.ok

\* C8: a perform_blocking call entered with no helper registered never
\* calls curl_multi_poll, and returns true.
C8_EmptyRunNeverPolls ==
    /\ run.empty => ~run.polled
    /\ (BlockingReturned /\ run.empty) => last.ok

\* C8 witness: an empty run has returned on a set that had driven a
\* transfer to completion in an earlier run
C8_Witness ==
    /\ BlockingReturned /\ run.empty /\ ~run.polled
    /\ \E h \in Helpers : xfer[h].state = "done" /\ h \notin helpers

\* curl_easy_perform is running a FILE_AND_STR transfer of cur into the
\* FILE its set_options opened
FileAndStrRunning ==
    /\ pc = "easy" /\ ~crashed
    /\ opt[cur].writefn = "file_and_str" /\ IsOpen(files, res[cur].file)

\* C11 (as claimed): during a FILE_AND_STR transfer, after every chunk given
\* to write_data_to_file_and_str, a short file write included, the bytes in
\* the file and the bytes in res.str are the same, and both are the chunks
\* delivered so far, in order.
C11_FileAndStrIdentical ==
    FileAndStrRunning =>
        /\ disk[files[res[cur].file].path].data = res[cur].str
        /\ res[cur].str = xfer[cur].recv

\* the fopen call of set_options (called alone or by download_cached_file)
\* has failed and the call is over
OpenFailed ==
    /\ pc = "idle" /\ ~crashed
    /\ last.op \in {"set_options", "download_cached_file"}
    /\ last.fopen # NoFopen

\* C12: when fopen fails in set_options, the call throws FileOpenError with
\* the path and the errno of that fopen; no write function has been bound,
\* no transfer of the helper is running, and the helper holds no FILE.
C12_OpenFailureThrowsAtOnce ==
    OpenFailed =>
        /\ ~last.ok
        /\ last.exc = [path |-> last.fopen.path, code |-> last.fopen.errno]
        /\ last.exc.code \in Errnos
        /\ opt[last.h].writefn = "default"
        /\ xfer[last.h].state # "active"
        /\ res[last.h].file = nullptr
        /\ \A f \in OwnedBy(last.h) : ~IsOpen(files, f)

\* C12 witness: set_options in a file mode threw with EACCES on a helper
\* that a preceding set_options had configured with an open file
C12_Witness ==
    /\ OpenFailed /\ last.op = "set_options"
    /\ last.exc = [path |-> "p", code |-> "EACCES"]
    /\ last.closed # nullptr /\ files[last.closed].state = "closed"

\* perform, called on a helper that set_options has configured, returned
ConfiguredPerformReturned ==
    PerformReturned /\ last.op = "perform" /\ opt[last.h].url

\* C13 (as claimed): whenever perform returns failure on a helper that
\* set_options has configured, get_err() returns a non-empty message.
C13_FailureFillsErrbuf ==
    (ConfiguredPerformReturned /\ ~last.ok) => get_err(last.h) # <<>>

\* ---- the digest sha1_checksum is claimed to compute, on a small scale:
\* a one-digit hexadecimal hash of the bytes
HexDigits == <<"0", "1", "2", "3", "4", "5", "6", "7", "8", "9",
               "a", "b", "c", "d", "e", "f">>

ByteCode(b) == CASE b = "a" -> 10 [] b = "b" -> 11 [] OTHER -> 0

RECURSIVE Hash(_)
Hash(bs) ==
    IF bs = <<>> THEN 0
    ELSE (3 * Hash(SubSeq(bs, 1, Len(bs) - 1)) + ByteCode(bs[Len(bs)])) % 16

Digest(bs) == <<HexDigits[Hash(bs) + 1]>>

\* a digest with its letters in lower case
LowerCase(d) ==
    [i \in 1..Len(d) |->
        CASE d[i] = "A" -> "a" [] d[i] = "B" -> "b" [] d[i] = "C" -> "c"
          [] d[i] = "D" -> "d" [] d[i] = "E" -> "e" [] d[i] = "F" -> "f"
          [] OTHER -> d[i]]

\* the bytes helper h wrote: its string if its mode fills one, else the
\* file its last fopen opened
WrittenBytes(h) ==
    IF opt[h].writefn \in {"str", "file_and_str"} THEN res[h].str
    ELSE IF OwnedBy(h) = {} THEN <<>>
    ELSE LET f == CHOOSE g \in OwnedBy(h) : \A k \in OwnedBy(h) : k <= g
         IN  disk[files[f].path].data

\* sha1_checksum returned, called after a transfer of a helper that
\* set_options has configured
ChecksumReturned ==
    /\ pc = "idle" /\ ~crashed /\ last.op = "sha1_checksum"
    /\ opt[last.h].url /\ xfer[last.h].state = "done"

\* C14 (as claimed): sha1_checksum with a non-empty expected digest returns
\* true exactly when the digest of the written bytes equals it, letter case
\* aside; with an empty expected digest it returns true.
C14_ChecksumCompares ==
    ChecksumReturned =>
        IF last.val = <<>> THEN last.ok
        ELSE last.ok <=> (LowerCase(last.val) = Digest(WrittenBytes(last.h)))

\* C15 (as claimed): perform prints the trailing newline if and only if
\* add_progress_meter has been called on the helper before.
C15_NewlineIffMeter ==
    ConfiguredPerformReturned => (last.nl <=> meter[last.h])

\* perform_blocking has been called and has not returned
InRun == pc \in {"mb_while", "mb_perform", "mb_poll", "mb_drain", "mb_exit"}

\* C16 (as claimed): when the transfers complete or fail and the wait
\* returns, every perform_blocking call returns, and every iteration of its
\* loop has drained the completion messages there were, so none is left
\* when the loop is over.
C16_RunTerminates ==
    /\ [](pc = "mb_exit" => Finished = {})
    /\ InRun ~> BlockingReturned

\* every transfer given to the set has ended and left it
AllDriven ==
    /\ helpers = {} /\ registered = {}
    /\ \A h \in Helpers : xfer[h].state \in {"none", "done"}

\* a perform_blocking call that was not the first on the set has returned
LaterRunReturned == BlockingReturned /\ run.nth = "later"

FileTransfersDone ==
    {h \in Helpers : UsesFile(h) /\ xfer[h].state = "done" /\ h \notin helpers}

\* C18 (as claimed): when perform_blocking returns, no helper whose
\* file-writing transfer the set completed still holds an open FILE.
C18_RunClosesFiles ==
    BlockingReturned =>
        \A h \in FileTransfersDone :
            /\ ~IsOpen(files, res[h].file)
            /\ \A f \in OwnedBy(h) : ~IsOpen(files, f)

\* a download_cached_file call has returned (or thrown) and nothing runs
DcfReturned == pc = "idle" /\ ~crashed /\ last.op = "download_cached_file"

\* C19: over all download_cached_file calls on a path, at most one
\* curl_easy_perform call is made; once one has been made the file exists,
\* so a call made after it takes the cache branch, whatever became of that
\* transfer, and with download_str true returns what the file holds.
C19_AtMostOneTransport ==
    /\ \A p \in Paths :
          /\ dcf.total[p] <= 1
          /\ dcf.total[p] = 1 => FileExists(p)
    /\ (DcfReturned /\ dcf.total[dcf.path] = 1 /\ dcf.calls = 0) =>
          /\ dcf.hit /\ ~dcf.threw
          /\ last.val = IF dcf.want THEN ReadFile(dcf.path) ELSE <<>>

\* C19 witness: after a download_cached_file transfer that a short write
\* cut off, a later call with download_str true returned the part of the
\* received bytes that is on disk
C19_Witness ==
    /\ DcfReturned /\ dcf.hit /\ dcf.want /\ dcf.total[dcf.path] = 1
    /\ xfer[last.h].short
    /\ last.val # <<>> /\ Len(last.val) < Len(xfer[last.h].recv)
    /\ IsPrefix(last.val, xfer[last.h].recv)

\* download_cached_file(path, true) took the download branch, its transfer
\* succeeded with every write accepted in full, and it has returned
MissReturnedWhole ==
    /\ DcfReturned /\ ~dcf.hit /\ ~dcf.threw /\ dcf.want
    /\ last.perf /\ ~xfer[last.h].short

\* C20: when such a call is followed at once by download_cached_file(path,
\* true) on the same path, the second call takes the cache branch and
\* returns the payload the first returned, which is the bytes received.
C20_MissThenHitSamePayload ==
    [][(MissReturnedWhole /\ DcfCallStep
          /\ dcf'.path = dcf.path /\ dcf'.want) =>
          /\ dcf'.hit /\ pc' = "idle"
          /\ last'.val = last.val
          /\ last.val = xfer[last.h].recv
      ]_vars

\* C20 witness: the second call has returned, from disk, the two chunks
\* that the first call's transfer received and left in res.str
C20_Witness ==
    /\ DcfReturned /\ dcf.hit /\ dcf.want /\ dcf.total[dcf.path] = 1
    /\ ~xfer[last.h].short /\ Len(xfer[last.h].recv) >= 2
    /\ last.val = xfer[last.h].recv
    /\ res[last.h].str = last.val
    /\ opt[last.h].writefn = "file_and_str"

====
